---- MODULE Spec2Model ----
(***************************************************************************)
(* Model of src/app.py: the YouTube download microservice.                 *)
(*                                                                         *)
(* Text is modelled as a sequence of one-character strings, so that        *)
(* rstrip, endswith, slicing and concatenation are computed as the code    *)
(* computes them.  A JSON value is a tagged record [t, s, n].  One request *)
(* is in flight at a time (requests share no mutable state, they only read *)
(* the module globals); the handler is cut at its two blocking external    *)
(* calls, subprocess.run and s3.upload_file.                               *)
(***************************************************************************)
EXTENDS Integers, Sequences, FiniteSets, TLC

(* ------------------------------ bounds --------------------------------- *)
\* longest yt-dlp stdout, in lines
MaxLines == 2
\* most files yt-dlp leaves in the temporary directory
MaxFiles == 2
\* longest yt-dlp stderr, in characters
MaxStderr == 501

(* ------------------------- program constants --------------------------- *)
DOWNLOAD_TIMEOUT == 600
STDERR_CAP == 500
TOKEN_LEN == 8

(* ------------------------------- text ---------------------------------- *)
Slash == <<"/">>
BearerPrefix == <<"B", "e", "a", "r", "e", "r", " ">>
NoneText == <<"N", "o", "n", "e">>
YoutubePrefix == <<"y", "o", "u", "t", "u", "b", "e", "/">>
DotMp4 == <<".", "m", "p", "4">>
DotMkv == <<".", "m", "k", "v">>
DotWebm == <<".", "w", "e", "b", "m">>
DotPart == <<".", "p", "a", "r", "t">>
DefaultBucket == <<"s", "o", "u", "r", "c", "e">>

Min(a, b) == IF a < b THEN a ELSE b

\* str.endswith(suffix)
EndsWith(s, suffix) ==
    /\ Len(suffix) <= Len(s)
    /\ SubSeq(s, Len(s) - Len(suffix) + 1, Len(s)) = suffix

\* str.rstrip("/"): every trailing slash goes
RECURSIVE RStrip(_)
RStrip(s) ==
    IF s # <<>> /\ s[Len(s)] = "/" THEN RStrip(SubSeq(s, 1, Len(s) - 1)) ELSE s

(* ---------------------------- JSON values ------------------------------ *)
JAbsent == [t |-> "absent", s |-> <<>>, n |-> 0]
JNull == [t |-> "null", s |-> <<>>, n |-> 0]
JStr(s) == [t |-> "str", s |-> s, n |-> 0]
JInt(n) == [t |-> "int", s |-> <<>>, n |-> n]
\* a float, held in tenths: 12.7 is JFloat(127)
JFloat(tenths) == [t |-> "float", s |-> <<>>, n |-> tenths]

\* Python truthiness of the value dict.get(key) returns (None when absent)
Truthy(v) ==
    CASE v.t = "absent" -> FALSE
      [] v.t = "null" -> FALSE
      [] v.t = "str" -> v.s # <<>>
      [] OTHER -> v.n # 0

\* the text an f-string renders for a value
Fmt(v) ==
    CASE v.t = "str" -> v.s
      [] OTHER -> NoneText

(* ------------------------- module globals ------------------------------ *)
VARIABLES
    env,        \* os.environ as read at import: the settings' defaults
    cfg,        \* the module globals MINIO_ENDPOINT .. API_SECRET, MINIO_BUCKET
    phase,      \* "loading" (import running), "loaded", "serving"
    keyIdx,     \* load_config_from_service: index of the next key of `keys`
    fetched,    \* per config key, the outcome of its requests.get, or NotFetched
    fetchCount  \* per config key, how many requests.get calls were made

(* --------------------------- one request ------------------------------- *)
VARIABLES
    pc,         \* "idle", "downloading" (in subprocess.run), "uploading", "done"
    req,        \* the request: Authorization header and JSON body
    steps,      \* the handler's steps executed so far, in order
    headerRead, \* whether the Authorization header was compared
    video_id,   \* the working identifier (a JSON value), once resolved
    tmpExists,  \* whether the request's TemporaryDirectory exists on disk
    tmpFiles,   \* the files in it
    dirsMade,   \* TemporaryDirectory() calls made by the request
    runs,       \* subprocess.run calls made by the request
    result,     \* what subprocess.run produced
    duration,   \* the value of the local `duration`
    local_file, \* the file chosen for upload
    uploads,    \* s3.upload_file calls made by the request
    responses   \* the responses produced for the request

cfgVars == <<env, cfg, phase, keyIdx, fetched, fetchCount>>
reqVars == <<pc, req, steps, headerRead, video_id, tmpExists, tmpFiles, dirsMade,
             runs, result, duration, local_file, uploads, responses>>
vars == <<env, cfg, phase, keyIdx, fetched, fetchCount,
          pc, req, steps, headerRead, video_id, tmpExists, tmpFiles, dirsMade,
          runs, result, duration, local_file, uploads, responses>>

(* ========================= config loader =============================== *)
\* the dict `keys`, in insertion order: config key -> global it sets
ConfigKeys == <<"MINIO_ENDPOINT", "MINIO_ACCESS_KEY", "MINIO_SECRET_KEY", "YT_DLP_API_SECRET">>
VarOf(k) == IF k = "YT_DLP_API_SECRET" THEN "API_SECRET" ELSE k
Settings == {"MINIO_ENDPOINT", "MINIO_ACCESS_KEY", "MINIO_SECRET_KEY", "API_SECRET"}

\* what the config service can hold for a key
ServiceValue(k) ==
    CASE k = "MINIO_ENDPOINT" -> <<"g">>
      [] k = "MINIO_ACCESS_KEY" -> <<"A">>
      [] k = "MINIO_SECRET_KEY" -> <<"K">>
      [] OTHER -> <<"t">>

\* outcomes of one requests.get(...) and of reading its body:
\*   "exc"     requests.get raised (connection refused, timeout)
\*   "notok"   a response with res.ok false
\*   "badjson" res.json() raised
\*   "novalue" a JSON object without "value"
\*   "empty"   {"value": ""}
\*   "value"   {"value": v}, v non-empty
FetchKinds == {"exc", "notok", "badjson", "novalue", "empty", "value"}
NotFetched == [kind |-> "none", value |-> <<>>]
FetchOutcomes(k) ==
    {[kind |-> x, value |-> <<>>] : x \in FetchKinds \ {"value"}}
        \cup {[kind |-> "value", value |-> ServiceValue(k)]}

\* lines 50-53: res.ok and data.get("value")
Overrides(o) == o.kind = "value" /\ o.value # <<>>

\* lines 47-56: the loop goes on to the next key whatever the outcome
NextKeyStopOnError(i, o) == IF o.kind = "exc" THEN Len(ConfigKeys) + 1 ELSE i + 1
NextKey(i, o) == i + 1

\* line 36: no base URL, no fetch
LoaderReturnsEarly(url) == url = <<>>

EnvChoices ==
    [CONFIG_SERVICE_URL : {<<>>, <<"c">>},
     MINIO_ENDPOINT : {<<"h", "/", "/">>},
     MINIO_ACCESS_KEY : {<<"a">>},
     MINIO_SECRET_KEY : {<<"k">>},
     MINIO_BUCKET : {DefaultBucket},
     API_SECRET : {<<>>, <<"s">>}]

\* lines 23-30: the globals start at their environment values
GlobalsFromEnv(e) ==
    [MINIO_ENDPOINT |-> e.MINIO_ENDPOINT,
     MINIO_ACCESS_KEY |-> e.MINIO_ACCESS_KEY,
     MINIO_SECRET_KEY |-> e.MINIO_SECRET_KEY,
     MINIO_BUCKET |-> e.MINIO_BUCKET,
     API_SECRET |-> e.API_SECRET]

Init ==
    /\ env \in EnvChoices
    /\ cfg = GlobalsFromEnv(env)
    /\ phase = "loading"
    /\ keyIdx = 1
    /\ fetched = [k \in Settings |-> NotFetched]
    /\ fetchCount = [k \in Settings |-> 0]
    /\ pc = "idle"
    /\ req = [header |-> [present |-> FALSE, value |-> <<>>],
              body |-> [kind |-> "none", url |-> JAbsent, videoId |-> JAbsent]]
    /\ steps = <<>>
    /\ headerRead = FALSE
    /\ video_id = JAbsent
    /\ tmpExists = FALSE
    /\ tmpFiles = {}
    /\ dirsMade = 0
    /\ runs = <<>>
    /\ result = [spawned |-> FALSE, elapsed |-> 0, rc |-> 0,
                 stdout |-> <<>>, stderr |-> <<>>, files |-> {}]
    /\ duration = JInt(0)
    /\ local_file = [name |-> <<>>, size |-> 0]
    /\ uploads = <<>>
    /\ responses = <<>>

\* load_config_from_service with no CONFIG_SERVICE_URL (lines 36-37)
LoaderSkip ==
    /\ phase = "loading"
    /\ LoaderReturnsEarly(env.CONFIG_SERVICE_URL)
    /\ phase' = "loaded"
    /\ UNCHANGED <<env, cfg, keyIdx, fetched, fetchCount>>
    /\ UNCHANGED reqVars

\* one iteration of the loop over `keys` (lines 47-56)
LoaderFetch ==
    /\ phase = "loading"
    /\ ~LoaderReturnsEarly(env.CONFIG_SERVICE_URL)
    /\ keyIdx <= Len(ConfigKeys)
    /\ LET k == VarOf(ConfigKeys[keyIdx]) IN
       \E o \in FetchOutcomes(ConfigKeys[keyIdx]) :
          /\ fetched' = [fetched EXCEPT ![k] = o]
          /\ fetchCount' = [fetchCount EXCEPT ![k] = @ + 1]
          /\ cfg' = IF Overrides(o) THEN [cfg EXCEPT ![k] = o.value] ELSE cfg
          /\ keyIdx' = NextKey(keyIdx, o)
          /\ phase' = IF NextKey(keyIdx, o) > Len(ConfigKeys) THEN "loaded" ELSE "loading"
    /\ UNCHANGED env
    /\ UNCHANGED reqVars

\* the rest of the import (lines 195-200): the loader's locals are gone and
\* the application starts to serve
StartServing ==
    /\ phase = "loaded"
    /\ phase' = "serving"
    /\ fetched' = [k \in Settings |-> NotFetched]
    /\ UNCHANGED <<env, cfg, keyIdx, fetchCount>>
    /\ UNCHANGED reqVars

(* ========================= request handler ============================= *)
NoHeader == [present |-> FALSE, value |-> <<>>]
Header(v) == [present |-> TRUE, value |-> v]
Headers ==
    {NoHeader, Header(BearerPrefix \o <<"s">>), Header(BearerPrefix \o <<"t">>)}


\* request.get_json(): None, a non-empty JSON array, or a JSON object
Bodies ==
    {[kind |-> "none", url |-> JAbsent, videoId |-> JAbsent],
     [kind |-> "list", url |-> JAbsent, videoId |-> JAbsent]}
    \cup [kind : {"obj"},
          url : {JAbsent, JStr(<<>>), JStr(<<"u">>)},
          videoId : {JAbsent, JStr(<<"a">>)}]

\* str(uuid.uuid4()): 36 characters, hyphens at 9, 14, 19, 24
UuidText == [i \in 1..36 |-> IF i \in {9, 14, 19, 24} THEN "-"
                              ELSE IF i % 2 = 0 THEN "f" ELSE "3"]

\* line 97: request.headers.get("Authorization", "")
HeaderGet(h) == IF h.present THEN h.value ELSE <<>>

\* lines 96-99
AuthRejectsPresentOnly(secret, h) ==
    secret # <<>> /\ h.present /\ h.value # BearerPrefix \o secret
AuthRejects(secret, h) ==
    secret # <<>> /\ HeaderGet(h) # BearerPrefix \o secret

\* line 102, `not data`: None and {} are falsy
DataFalsy(b) ==
    \/ b.kind = "none"
    \/ b.kind = "obj" /\ b.url.t = "absent" /\ b.videoId.t = "absent"

\* line 102, data.get on a value that is no dict raises AttributeError
BodyRaises(b) == ~DataFalsy(b) /\ b.kind # "obj"

\* line 102
UrlMissingKeyOnly(b) == DataFalsy(b) \/ b.url.t = "absent"
UrlMissing(b) == DataFalsy(b) \/ ~Truthy(b.url)

\* line 106: data.get("videoId", str(uuid.uuid4())[:8])
ResolveId(b, uuid) ==
    IF b.videoId.t = "absent" THEN JStr(SubSeq(uuid, 1, TOKEN_LEN)) ELSE b.videoId

\* line 111: the output template, "%(ext)s" filled in by yt-dlp
OutputName(id, ext) == Fmt(id) \o ext

FileSizes(ext) ==
    CASE ext = DotMp4 -> 7
      [] ext = DotMkv -> 5
      [] ext = DotWebm -> 9
      [] OTHER -> 3

\* what yt-dlp can leave in the temporary directory
DirListings(id) ==
    LET all == {[name |-> OutputName(id, e), size |-> FileSizes(e)] :
                    e \in {DotMp4, DotMkv, DotWebm, DotPart}}
    IN {S \in SUBSET all : Cardinality(S) <= MaxFiles}

Lines == {"", "WARNING", "[1]", "{}", "{\"duration\": 12.7}", "{\"duration\": null}"}
Stdouts == UNION {[1..n -> Lines] : n \in 0..MaxLines}

\* the tool's stderr of length n
Stderr(n) == [i \in 1..n |-> i % 7]
StderrLens == {0, STDERR_CAP - 1, STDERR_CAP, MaxStderr}

\* outcomes of subprocess.run (lines 133-138)
RunOutcomes(id) ==
    {[spawned |-> FALSE, elapsed |-> 0, rc |-> 0, stdout |-> <<>>, stderr |-> <<>>,
      files |-> {}]}
    \cup [spawned : {TRUE}, elapsed : {DOWNLOAD_TIMEOUT + 1}, rc : {0},
          stdout : {<<>>}, stderr : {<<>>}, files : DirListings(id)]
    \cup [spawned : {TRUE}, elapsed : {DOWNLOAD_TIMEOUT - 1}, rc : {1},
          stdout : {<<>>}, stderr : {Stderr(n) : n \in StderrLens},
          files : DirListings(id)]
    \cup [spawned : {TRUE}, elapsed : {DOWNLOAD_TIMEOUT - 1}, rc : {0},
          stdout : Stdouts, stderr : {<<>>}, files : DirListings(id)]

\* line 137-139: subprocess.TimeoutExpired
TimedOutLate(r) == r.elapsed > 2 * DOWNLOAD_TIMEOUT
TimedOut(r) == r.elapsed > DOWNLOAD_TIMEOUT

\* line 142
DownloadFailedAboveOne(r) == r.rc > 1
DownloadFailed(r) == r.rc # 0

\* line 145: result.stderr[:500]
ErrExcerptWhole(text) == text
ErrExcerpt(text) == SubSeq(text, 1, Min(Len(text), STDERR_CAP))

\* line 151: result.stdout.strip().split("\n")[-1]
RECURSIVE RStripBlank(_)
RStripBlank(out) ==
    IF out # <<>> /\ out[Len(out)] = "" THEN RStripBlank(SubSeq(out, 1, Len(out) - 1))
    ELSE out
LastLine(out) ==
    LET s == RStripBlank(out) IN IF s = <<>> THEN "" ELSE s[Len(s)]

\* json.loads on a line: whether it parses, whether the value is an object,
\* and the object's "duration"
JsonLoads(text) ==
    CASE text = "[1]" -> [ok |-> TRUE, obj |-> FALSE, dur |-> JAbsent]
      [] text = "{}" -> [ok |-> TRUE, obj |-> TRUE, dur |-> JAbsent]
      [] text = "{\"duration\": 12.7}" -> [ok |-> TRUE, obj |-> TRUE, dur |-> JFloat(127)]
      [] text = "{\"duration\": null}" -> [ok |-> TRUE, obj |-> TRUE, dur |-> JNull]
      [] OTHER -> [ok |-> FALSE, obj |-> FALSE, dur |-> JAbsent]

\* lines 150-154: JSONDecodeError gives 0; metadata.get on a value that is no
\* dict raises AttributeError, which the except clause does not name
ParseDuration(out) ==
    LET j == JsonLoads(LastLine(out)) IN
    IF ~j.ok THEN [raised |-> FALSE, value |-> JInt(0)]
    ELSE IF ~j.obj THEN [raised |-> TRUE, value |-> JInt(0)]
    ELSE [raised |-> FALSE, value |-> IF j.dur.t = "absent" THEN JInt(0) ELSE j.dur]

\* line 188: int(duration); int(None) raises TypeError
IntOf(v) ==
    CASE v.t = "int" -> [ok |-> TRUE, n |-> v.n]
      [] v.t = "float" -> [ok |-> TRUE, n |-> v.n \div 10]
      [] OTHER -> [ok |-> FALSE, n |-> 0]

\* line 159
IsVideo(name) ==
    EndsWith(name, DotMp4) \/ EndsWith(name, DotMkv) \/ EndsWith(name, DotWebm)

\* lines 157-160
DownloadedFiles(files) == {f \in files : IsVideo(f.name)}

\* line 170
ObjectKeyOfFile(id, file) == YoutubePrefix \o file.name
ObjectKey(id, file) == YoutubePrefix \o Fmt(id) \o DotMp4

\* line 183
SourceUrl(endpoint, bucket, key) ==
    RStrip(endpoint) \o Slash \o bucket \o Slash \o key

\* lines 59-69 and 173-178: the client and the call made on it
UploadCall(file, key) ==
    [endpoint_url |-> RStrip(cfg.MINIO_ENDPOINT),
     access_key |-> cfg.MINIO_ACCESS_KEY,
     secret_key |-> cfg.MINIO_SECRET_KEY,
     bucket |-> cfg.MINIO_BUCKET,
     key |-> key,
     file |-> file,
     content_type |-> "video/mp4",
     outcome |-> "pending",
     message |-> <<>>]

\* what s3.upload_file can raise
UploadErrors == {<<"d", "e", "n", "i", "e", "d">>}

\* line 110: leaving the with block, by return or by exception, removes the
\* directory
RemainsOnRaise(how) == how = "raise"
RemainsAfterExit(how) == FALSE

(* ----------------------------- responses ------------------------------- *)
NoError == [prefix |-> "", detail |-> <<>>]
ErrorResponse(status, prefix, detail) ==
    [status |-> status, json |-> TRUE, error |-> [prefix |-> prefix, detail |-> detail],
     sourceUrl |-> <<>>, duration |-> 0, fileSize |-> 0]
\* an exception left the view function: the framework answers 500 itself
Unhandled ==
    [status |-> 500, json |-> FALSE, error |-> NoError,
     sourceUrl |-> <<>>, duration |-> 0, fileSize |-> 0]
Success(url, dur, size) ==
    [status |-> 200, json |-> TRUE, error |-> NoError,
     sourceUrl |-> url, duration |-> dur, fileSize |-> size]

(* ------------------------------ actions -------------------------------- *)
NoResult ==
    [spawned |-> FALSE, elapsed |-> 0, rc |-> 0, stdout |-> <<>>, stderr |-> <<>>,
     files |-> {}]
NoFile == [name |-> <<>>, size |-> 0]

\* the handler returns (or raises) with the response `resp`, leaving the with
\* block if it was inside it
Finish(done, resp, how, files) ==
    /\ pc' = "done"
    /\ steps' = steps \o done \o <<"respond">>
    /\ responses' = Append(responses, resp)
    /\ tmpExists' = (tmpExists /\ RemainsAfterExit(how))
    /\ tmpFiles' = IF tmpExists /\ RemainsAfterExit(how) THEN files ELSE {}

\* POST /api/download up to the call of subprocess.run (lines 95-133)
Receive ==
    /\ phase = "serving"
    /\ pc = "idle"
    /\ \E h \in Headers, b \in Bodies :
          /\ req' = [header |-> h, body |-> b]
          /\ headerRead' = (cfg.API_SECRET # <<>>)
          /\ result' = NoResult
          /\ duration' = JInt(0)
          /\ local_file' = NoFile
          /\ uploads' = <<>>
          /\ IF AuthRejects(cfg.API_SECRET, h) \/ BodyRaises(b) \/ UrlMissing(b)
             THEN /\ pc' = "done"
                  /\ steps' = IF AuthRejects(cfg.API_SECRET, h)
                              THEN <<"auth", "respond">>
                              ELSE <<"auth", "validate", "respond">>
                  /\ responses' =
                        <<IF AuthRejects(cfg.API_SECRET, h)
                          THEN ErrorResponse(401, "Unauthorized", <<>>)
                          ELSE IF BodyRaises(b) THEN Unhandled
                          ELSE ErrorResponse(400, "url is required", <<>>)>>
                  /\ video_id' = JAbsent
                  /\ tmpExists' = FALSE
                  /\ tmpFiles' = {}
                  /\ dirsMade' = 0
                  /\ runs' = <<>>
             ELSE /\ pc' = "downloading"
                  /\ steps' = <<"auth", "validate", "mkdtemp", "download">>
                  /\ responses' = <<>>
                  /\ video_id' = ResolveId(b, UuidText)
                  /\ tmpExists' = TRUE
                  /\ tmpFiles' = {}
                  /\ dirsMade' = 1
                  /\ runs' = <<[url |-> b.url.s,
                               output |-> OutputName(ResolveId(b, UuidText),
                                                     <<".", "%(ext)s">>)]>>
    /\ UNCHANGED cfgVars

\* subprocess.run returns or raises; the handler goes on to the call of
\* s3.upload_file, or ends (lines 133-173)
SubprocessReturns ==
    /\ pc = "downloading"
    /\ \E r \in RunOutcomes(video_id) :
          /\ result' = r
          /\ IF ~r.spawned
             THEN /\ Finish(<<>>, Unhandled, "raise", r.files)
                  /\ UNCHANGED <<duration, local_file, uploads>>
             ELSE IF TimedOut(r)
             THEN /\ Finish(<<>>, ErrorResponse(504, "Download timed out (10 min limit)", <<>>),
                            "return", r.files)
                  /\ UNCHANGED <<duration, local_file, uploads>>
             ELSE IF DownloadFailed(r)
             THEN /\ Finish(<<>>, ErrorResponse(500, "Download failed: ", ErrExcerpt(r.stderr)),
                            "return", r.files)
                  /\ UNCHANGED <<duration, local_file, uploads>>
             ELSE IF ParseDuration(r.stdout).raised
             THEN /\ Finish(<<"parse">>, Unhandled, "raise", r.files)
                  /\ UNCHANGED <<duration, local_file, uploads>>
             ELSE IF DownloadedFiles(r.files) = {}
             THEN /\ Finish(<<"parse", "locate">>,
                            ErrorResponse(500, "No video file found after download", <<>>),
                            "return", r.files)
                  /\ duration' = ParseDuration(r.stdout).value
                  /\ UNCHANGED <<local_file, uploads>>
             ELSE \E f \in DownloadedFiles(r.files) :
                  /\ pc' = "uploading"
                  /\ steps' = steps \o <<"parse", "locate", "getsize", "upload">>
                  /\ duration' = ParseDuration(r.stdout).value
                  /\ local_file' = f
                  /\ uploads' = Append(uploads, UploadCall(f, ObjectKey(video_id, f)))
                  /\ tmpFiles' = r.files
                  /\ UNCHANGED <<responses, tmpExists>>
    /\ UNCHANGED <<req, headerRead, video_id, dirsMade, runs>>
    /\ UNCHANGED cfgVars

\* s3.upload_file returns: the 200 response is built (lines 183-190)
UploadReturns ==
    /\ pc = "uploading"
    /\ IF IntOf(duration).ok
       THEN Finish(<<>>,
                   Success(SourceUrl(cfg.MINIO_ENDPOINT, cfg.MINIO_BUCKET, uploads[1].key),
                           IntOf(duration).n, local_file.size),
                   "return", tmpFiles)
       ELSE Finish(<<>>, Unhandled, "raise", tmpFiles)
    /\ uploads' = [uploads EXCEPT ![1].outcome = "returned"]
    /\ UNCHANGED <<req, headerRead, video_id, dirsMade, runs, result, duration, local_file>>
    /\ UNCHANGED cfgVars

\* s3.upload_file raises (lines 179-181)
UploadRaises ==
    /\ pc = "uploading"
    /\ \E e \in UploadErrors :
          /\ Finish(<<>>, ErrorResponse(500, "Upload to storage failed: ", e), "return",
                    tmpFiles)
          /\ uploads' = [uploads EXCEPT ![1].outcome = "raised", ![1].message = e]
    /\ UNCHANGED <<req, headerRead, video_id, dirsMade, runs, result, duration, local_file>>
    /\ UNCHANGED cfgVars

\* the response is sent and the worker is free for the next request, which
\* starts from fresh locals
WorkerFree ==
    /\ pc = "done"
    /\ pc' = "idle"
    /\ req' = [header |-> NoHeader,
               body |-> [kind |-> "none", url |-> JAbsent, videoId |-> JAbsent]]
    /\ steps' = <<>>
    /\ headerRead' = FALSE
    /\ video_id' = JAbsent
    /\ tmpFiles' = {}
    /\ dirsMade' = 0
    /\ runs' = <<>>
    /\ result' = NoResult
    /\ duration' = JInt(0)
    /\ local_file' = NoFile
    /\ uploads' = <<>>
    /\ responses' = <<>>
    /\ UNCHANGED tmpExists
    /\ UNCHANGED cfgVars

Next ==
    \/ LoaderSkip
    \/ LoaderFetch
    \/ StartServing
    \/ Receive
    \/ SubprocessReturns
    \/ UploadReturns
    \/ UploadRaises
    \/ WorkerFree

Spec == Init /\ [][Next]_vars

(* ============================== claims ================================= *)
Responded == pc = "done" /\ Len(responses) = 1
Resp == responses[1]
HasErrorField(r) == r.json /\ r.error.prefix # ""
HeaderMatches ==
    req.header.present /\ req.header.value = BearerPrefix \o cfg.API_SECRET
PassesAuth == cfg.API_SECRET = <<>> \/ HeaderMatches
\* the body is missing, or is an object without a url or with an empty one
BodyLacksUrl ==
    \/ req.body.kind = "none"
    \/ req.body.kind = "obj" /\ (req.body.url.t = "absent" \/ req.body.url.s = <<>>)
ExitedZero ==
    result.spawned /\ result.elapsed <= DOWNLOAD_TIMEOUT /\ result.rc = 0
HasVideoExt(name) ==
    \E e \in {DotMp4, DotMkv, DotWebm} :
        Len(name) >= Len(e) /\ \A i \in 1..Len(e) : name[Len(name) - Len(e) + i] = e[i]

C2_Auth ==
    pc # "idle" =>
        /\ (cfg.API_SECRET # <<>> /\ ~HeaderMatches) =>
              /\ Responded
              /\ Resp.status = 401
              /\ HasErrorField(Resp)
              /\ runs = <<>>
              /\ uploads = <<>>
              /\ steps = <<"auth", "respond">>
        /\ (cfg.API_SECRET # <<>> /\ HeaderMatches) =>
              /\ Len(steps) >= 2 /\ steps[2] = "validate"
              /\ Responded => Resp.status # 401
        /\ cfg.API_SECRET = <<>> =>
              /\ ~headerRead
              /\ Len(steps) >= 2 /\ steps[2] = "validate"
              /\ Responded => Resp.status # 401

C2_Witness ==
    /\ Responded
    /\ Resp.status = 401
    /\ req.header.present
    /\ req.body.kind = "obj"
    /\ req.body.url = JStr(<<"u">>)

\* C3: when the downloader runs past the 600 s timeout the request ends with
\* 504, and no parse, file scan or upload happens in it.
C3_Timeout ==
    (Responded /\ result.spawned /\ result.elapsed > DOWNLOAD_TIMEOUT) =>
        /\ Resp.status = 504
        /\ HasErrorField(Resp)
        /\ uploads = <<>>
        /\ \A i \in 1..Len(steps) : steps[i] \notin {"parse", "locate", "getsize", "upload"}

C3_Witness ==
    /\ Responded
    /\ result.spawned
    /\ result.elapsed > DOWNLOAD_TIMEOUT
    /\ \E f \in result.files : HasVideoExt(f.name)
    /\ Resp.status = 504

\* C4: when the downloader exits non-zero the request ends with 500, nothing
\* is uploaded, and the error text carries a prefix of the tool's stderr at
\* most 500 characters long, whatever the length of stderr.
C4_DownloadFailed ==
    (Responded /\ result.spawned /\ result.elapsed <= DOWNLOAD_TIMEOUT /\ result.rc # 0) =>
        /\ Resp.status = 500
        /\ HasErrorField(Resp)
        /\ uploads = <<>>
        /\ Len(Resp.error.detail) <= STDERR_CAP
        /\ Len(Resp.error.detail) <= Len(result.stderr)
        /\ \A i \in 1..Len(Resp.error.detail) : Resp.error.detail[i] = result.stderr[i]

C4_Witness ==
    /\ Responded
    /\ result.rc # 0
    /\ Len(result.stderr) > STDERR_CAP
    /\ Len(Resp.error.detail) = STDERR_CAP

\* C5 as stated: when the downloader exits 0 and the temporary directory holds
\* no file ending in .mp4, .mkv or .webm, the request ends with 500 with an
\* error field and nothing is uploaded.
C5_AsStated ==
    (Responded /\ ExitedZero /\ ~\E f \in result.files : HasVideoExt(f.name)) =>
        /\ Resp.status = 500
        /\ HasErrorField(Resp)
        /\ uploads = <<>>

\* what the service would serve as the object's URL: the endpoint without its
\* trailing slashes, the bucket and the key
IsObjectUrl(url, endpoint, bucket, key) ==
    \E n \in 0..Len(endpoint) :
        LET base == SubSeq(endpoint, 1, Len(endpoint) - n) IN
        /\ \A i \in (Len(endpoint) - n + 1)..Len(endpoint) : endpoint[i] = "/"
        /\ base = <<>> \/ base[Len(base)] # "/"
        /\ url = base \o <<"/">> \o bucket \o <<"/">> \o key

\* the key youtube/{id}.mp4 of the request's working identifier
ExpectedKey ==
    <<"y", "o", "u", "t", "u", "b", "e", "/">>
        \o (IF video_id.t = "str" THEN video_id.s ELSE <<"N", "o", "n", "e">>)
        \o <<".", "m", "p", "4">>

\* C6: on a 200 response sourceUrl is {endpoint}/{bucket}/youtube/{id}.mp4,
\* with the endpoint's trailing slashes stripped and id the supplied videoId
\* or, when none was supplied, a short random token; the object was uploaded
\* under exactly youtube/{id}.mp4 in that bucket; fileSize is the size of the
\* local file that was uploaded.
C6_Success ==
    (Responded /\ Resp.status = 200) =>
        /\ IF req.body.videoId.t = "absent"
           THEN video_id.t = "str" /\ Len(video_id.s) = TOKEN_LEN
           ELSE video_id = req.body.videoId
        /\ IsObjectUrl(Resp.sourceUrl, cfg.MINIO_ENDPOINT, cfg.MINIO_BUCKET, ExpectedKey)
        /\ Len(uploads) = 1
        /\ uploads[1].key = ExpectedKey
        /\ uploads[1].bucket = cfg.MINIO_BUCKET
        /\ uploads[1].file \in result.files
        /\ Resp.fileSize = uploads[1].file.size
        /\ \E i \in 1..Len(steps) : \E j \in 1..Len(steps) :
              i < j /\ steps[i] = "getsize" /\ steps[j] = "upload"

C6_Witness ==
    /\ Responded
    /\ Resp.status = 200
    /\ req.body.videoId.t = "absent"
    /\ cfg.MINIO_ENDPOINT = <<"h", "/", "/">>
    /\ Cardinality(DownloadedFiles(result.files)) = 2
    /\ ~EndsWith(uploads[1].file.name, DotMp4)

\* the duration the last line of stdout carries: the integer part of a
\* numeric "duration" of a JSON object, 0 in every other case
ExpectedDuration(out) ==
    LET last == LastLine(out) IN
    IF last = "{\"duration\": 12.7}" THEN 12 ELSE 0

\* C7 as stated: after the downloader exits 0, whatever it printed, the
\* request goes on to the file scan and to the upload, no exception escapes
\* the handler, and a 200 response carries the parsed duration as an integer,
\* or 0 when there is none to parse.
C7_AsStated ==
    (Responded /\ ExitedZero) =>
        /\ \E i \in 1..Len(steps) : steps[i] = "locate"
        /\ Resp.json
        /\ (\E f \in result.files : HasVideoExt(f.name)) => Len(uploads) = 1
        /\ (Len(uploads) = 1 /\ uploads[1].outcome = "returned") =>
              /\ Resp.status = 200
              /\ Resp.duration = ExpectedDuration(result.stdout)

\* C8: once a request has completed, on any exit path, its temporary
\* directory and the files in it are gone; a request answered 401 or 400
\* never created one.
C8_TempRemoved ==
    /\ pc \in {"done", "idle"} => (~tmpExists /\ tmpFiles = {})
    /\ (Responded /\ Resp.status \in {400, 401}) => dirsMade = 0
    /\ pc \in {"downloading", "uploading"} => (tmpExists /\ dirsMade = 1)

C8_Witness ==
    /\ Responded
    /\ dirsMade = 1
    /\ ~Resp.json
    /\ Len(uploads) = 1
    /\ result.files # {}

\* C9: with a base URL configured each of the four keys is fetched exactly
\* once, whatever the outcomes of the other fetches; a fetch that returns a
\* non-empty value makes the setting equal to it and any other outcome leaves
\* the setting at its environment value; the loader ends; with no base URL
\* nothing is fetched and the settings are the environment's.
C9_Loader ==
    /\ \A k \in Settings : fetchCount[k] <= 1
    /\ env.CONFIG_SERVICE_URL = <<>> => \A k \in Settings : fetchCount[k] = 0
    /\ cfg.MINIO_BUCKET = env.MINIO_BUCKET
    /\ phase = "loading" =>
          /\ keyIdx \in 1..Len(ConfigKeys)
          /\ \A k \in Settings :
                fetchCount[k] = (IF \E i \in 1..(keyIdx - 1) : VarOf(ConfigKeys[i]) = k
                                 THEN 1 ELSE 0)
          /\ ENABLED (LoaderSkip \/ LoaderFetch)
    /\ (phase # "loading" /\ env.CONFIG_SERVICE_URL # <<>>) =>
          \A k \in Settings : fetchCount[k] = 1
    /\ phase = "loaded" =>
          \A k \in Settings :
              cfg[k] = IF fetched[k].kind = "value" /\ fetched[k].value # <<>>
                       THEN fetched[k].value
                       ELSE env[k]

C9_Witness ==
    /\ phase = "loaded"
    /\ fetched["MINIO_ENDPOINT"].kind = "exc"
    /\ fetched["MINIO_ACCESS_KEY"].kind = "empty"
    /\ fetched["MINIO_SECRET_KEY"].kind = "notok"
    /\ fetched["API_SECRET"].kind = "value"
    /\ cfg.API_SECRET = <<"t">>
    /\ cfg.MINIO_ENDPOINT = env.MINIO_ENDPOINT

\* the place of a step in Validate, Download, Locate, Upload, Respond
StepIndex(st) ==
    CASE st = "auth" -> 1
      [] st = "validate" -> 2
      [] st = "mkdtemp" -> 3
      [] st = "download" -> 4
      [] st = "parse" -> 5
      [] st = "locate" -> 6
      [] st = "getsize" -> 7
      [] st = "upload" -> 8
      [] OTHER -> 9
Ran(st) == \E i \in 1..Len(steps) : steps[i] = st

\* C10: the steps of a request run in the order Validate, Download, Locate,
\* Upload, Respond without going back; the downloader and the upload are each
\* called at most once; the upload is called only after the downloader exited
\* 0 and a video file was found; a request gets exactly one response; a
\* failed step is followed by the response only, and a failed upload is
\* answered 500 with the underlying message.
C10_Linear ==
    /\ \A i \in 1..(Len(steps) - 1) : StepIndex(steps[i]) < StepIndex(steps[i + 1])
    /\ Len(runs) <= 1 /\ Len(uploads) <= 1 /\ Len(responses) <= 1
    /\ Len(runs) = (IF Ran("download") THEN 1 ELSE 0)
    /\ Len(uploads) = (IF Ran("upload") THEN 1 ELSE 0)
    /\ pc = "done" <=> Len(responses) = 1
    /\ pc = "done" <=> Ran("respond")
    /\ Len(uploads) = 1 =>
          /\ ExitedZero
          /\ Ran("locate")
          /\ uploads[1].file \in result.files
          /\ HasVideoExt(uploads[1].file.name)
    /\ (Responded /\ Resp.status = 200) =>
          steps = <<"auth", "validate", "mkdtemp", "download", "parse", "locate",
                    "getsize", "upload", "respond">>
    /\ (Responded /\ result.spawned /\ ~ExitedZero) =>
          (Resp.status # 200 /\ steps = <<"auth", "validate", "mkdtemp", "download", "respond">>)
    /\ (Len(uploads) = 1 /\ uploads[1].outcome = "raised") =>
          /\ Responded
          /\ Resp.status = 500
          /\ HasErrorField(Resp)
          /\ Resp.error.detail = uploads[1].message

C10_Witness ==
    /\ Responded
    /\ Len(uploads) = 1
    /\ uploads[1].outcome = "raised"
    /\ Resp.status = 500
    /\ Resp.error.detail # <<>>

====
